---- MODULE Spec2Model ----
(***************************************************************************)
(* Model of the weather tool of marcello-sousa/Ceres:                      *)
(*   src/client_geo.py  OpenMeteoClient (validation, ranking, geocoding,   *)
(*                      forecast fetch, auto mode)                         *)
(*   src/server.py      get_weather_forecast (resolution + persisted       *)
(*                      per-location record with latest/history)           *)
(*                                                                         *)
(* Conventions.                                                            *)
(*  - Optional[T] is a set with at most one element: None is {} and a      *)
(*    present value v is {v}.                                              *)
(*  - A Python str on which the code works character by character (city,  *)
(*    state, county, country_code, admin1, admin2, name, folder names) is  *)
(*    a sequence of one-character strings.  Opaque strings (timezone,      *)
(*    current.time) are TLA+ strings.                                      *)
(*  - A float coordinate is an integer number of tenths of a degree        *)
(*    (-125 is -12.5), so that its repr always has one decimal digit.      *)
(***************************************************************************)
EXTENDS Integers, Sequences, FiniteSets, TLC

VARIABLES
    \* ---- get_weather_forecast (src/server.py) ----
    store,        \* meteo_data/<folder>/city.json : folder name -> file content
    merged,       \* per folder name, the payloads written so far, in order
    calls,        \* number of invocations performed
    city,         \* arguments of the last invocation (the state hint is not kept)
    latitude,
    longitude,
    outcome,      \* "none" | "ok" | the error the last invocation raised
    requests,     \* outbound GET requests of the last invocation, in order
    result,       \* Optional: the forecast the last invocation returned
    folder,       \* Optional: the folder name the last invocation wrote to
    \* ---- _rank_results as a pure function (src/client_geo.py) ----
    results,      \* raw geocoding records handed to _rank_results
    rstate,       \* state hint
    rcounty,      \* county hint
    rcc,          \* country_code hint
    ranked,       \* _rank_results(results, ...)
    reranked,     \* _rank_results(ranked, ...)
    rpc           \* "in" | "ranked" | "reranked"

srvVars  == <<store, merged, calls, city, latitude, longitude,
              outcome, requests, result, folder>>
rankVars == <<results, rstate, rcounty, rcc, ranked, reranked, rpc>>
vars     == <<srvVars, rankVars>>

(***************************************************************************)
(* Bounds                                                                  *)
(***************************************************************************)
MaxCalls == 2     \* invocations of get_weather_forecast in one behaviour
MaxCands == 3     \* length of the candidate list handed to _rank_results

(***************************************************************************)
(* Python values                                                           *)
(***************************************************************************)
None     == {}
Some(v)  == {v}
Val(o)   == CHOOSE v \in o : TRUE
Range(s) == {s[i] : i \in 1..Len(s)}

\* truthiness of an Optional[str]: `if s:` is false for None and for ""
Truthy(o) == o # None /\ Val(o) # <<>>

Whitespace == {" ", "\t", "\n"}
UC == <<"A","B","C","D","E","F","G","H","I","J","K","L","M",
        "N","O","P","Q","R","S","T","U","V","W","X","Y","Z">>
LC == <<"a","b","c","d","e","f","g","h","i","j","k","l","m",
        "n","o","p","q","r","s","t","u","v","w","x","y","z">>

LowerChar(c) ==
    IF \E i \in 1..26 : UC[i] = c
    THEN LC[CHOOSE i \in 1..26 : UC[i] = c]
    ELSE c

\* str.lower()
lower(s) == [i \in 1..Len(s) |-> LowerChar(s[i])]

RECURSIVE lstrip(_)
lstrip(s) == IF s # <<>> /\ Head(s) \in Whitespace THEN lstrip(Tail(s)) ELSE s

RECURSIVE rstrip(_)
rstrip(s) ==
    IF s # <<>> /\ s[Len(s)] \in Whitespace
    THEN rstrip(SubSeq(s, 1, Len(s) - 1))
    ELSE s

\* str.strip()
strip(s) == rstrip(lstrip(s))

\* str.replace(old, new) for one-character old and new
replace(s, old, new) == [i \in 1..Len(s) |-> IF s[i] = old THEN new ELSE s[i]]

Digits == <<"0","1","2","3","4","5","6","7","8","9">>
IsDigit(c)  == \E i \in 1..10 : Digits[i] = c
DigitVal(c) == (CHOOSE i \in 1..10 : Digits[i] = c) - 1

RECURSIVE NatStr(_)
\* decimal digits of a natural number
NatStr(n) == IF n < 10 THEN <<Digits[n + 1]>>
             ELSE NatStr(n \div 10) \o <<Digits[(n % 10) + 1]>>

RECURSIVE ParseNat(_)
ParseNat(s) == IF s = <<>> THEN 0
               ELSE 10 * ParseNat(SubSeq(s, 1, Len(s) - 1)) + DigitVal(s[Len(s)])

\* a population value as the provider's JSON may carry it
PopInt(n) == [kind |-> "int", n |-> n, s |-> <<>>]
PopStr(s) == [kind |-> "str", n |-> 0, s |-> s]

\* int(p): None when int() raises
int(p) ==
    IF p.kind = "int" THEN Some(p.n)
    ELSE LET t    == strip(p.s)
             neg  == t # <<>> /\ Head(t) = "-"
             body == IF t # <<>> /\ Head(t) \in {"-", "+"} THEN Tail(t) ELSE t
         IN  IF body # <<>> /\ \A i \in 1..Len(body) : IsDigit(body[i])
             THEN Some(IF neg THEN 0 - ParseNat(body) ELSE ParseNat(body))
             ELSE None

(***************************************************************************)
(* OpenMeteoClient helpers                                                 *)
(***************************************************************************)
_norm(s) == lower(strip(IF s = None THEN <<>> ELSE Val(s)))

\* variant: `or` in place of `and` between the two range tests
_validate_latlon_or(lat, lon) ==
    (-900 <= lat /\ lat <= 900) \/ (-1800 <= lon /\ lon <= 1800)

\* TRUE iff _validate_latlon returns without raising
_validate_latlon(lat, lon) ==
    (-900 <= lat /\ lat <= 900) /\ (-1800 <= lon /\ lon <= 1800)

(***************************************************************************)
(* _rank_results                                                           *)
(***************************************************************************)
\* variant: a hard filter, never reverted
KeepOnly(rs, filtered) == filtered

\* [...] or results  /  if filtered: results = filtered
KeepOrRevert(rs, filtered) == IF filtered # <<>> THEN filtered ELSE rs

CountryStage(rs, country_code) ==
    IF Truthy(country_code)
    THEN KeepOrRevert(rs, SelectSeq(rs, LAMBDA r : _norm(r.country_code) = _norm(country_code)))
    ELSE rs

StateStage(rs, st) ==
    IF Truthy(st)
    THEN KeepOrRevert(rs, SelectSeq(rs, LAMBDA r : _norm(r.admin1) = _norm(st)))
    ELSE rs

CountyStage(rs, county) ==
    IF Truthy(county)
    THEN KeepOrRevert(rs, SelectSeq(rs, LAMBDA r : _norm(r.admin2) = _norm(county)))
    ELSE rs

\* variant: a missing population counts as 0
pop_zero(r) ==
    LET p == r.population
    IN  IF p = None THEN 0
        ELSE IF int(Val(p)) = None THEN -1 ELSE Val(int(Val(p)))

pop(r) ==
    LET p == r.population
    IN  IF p = None THEN -1
        ELSE IF int(Val(p)) = None THEN -1 ELSE Val(int(Val(p)))

Reverse(rs) == [i \in 1..Len(rs) |-> rs[Len(rs) + 1 - i]]

RECURSIVE sort_asc(_)
sort_asc(rs) ==
    IF rs = <<>> THEN <<>>
    ELSE LET x    == rs[Len(rs)]
             done == sort_asc(SubSeq(rs, 1, Len(rs) - 1))
         IN  SelectSeq(done, LAMBDA r : pop(r) <= pop(x))
             \o <<x>>
             \o SelectSeq(done, LAMBDA r : pop(r) > pop(x))

\* variant: sort ascending, then reverse the list (ties come out reversed)
sort_then_reverse(rs) == Reverse(sort_asc(rs))

RECURSIVE sort_by_pop(_)
\* results.sort(key=pop, reverse=True): stable, descending.  Elements are
\* inserted in input order, each after every element whose key is >= its own.
sort_by_pop(rs) ==
    IF rs = <<>> THEN <<>>
    ELSE LET x    == rs[Len(rs)]
             done == sort_by_pop(SubSeq(rs, 1, Len(rs) - 1))
         IN  SelectSeq(done, LAMBDA r : pop(r) >= pop(x))
             \o <<x>>
             \o SelectSeq(done, LAMBDA r : pop(r) < pop(x))

_rank_results(rs, st, county, country_code) ==
    sort_by_pop(CountyStage(StateStage(CountryStage(rs, country_code), st), county))

(***************************************************************************)
(* geocode_city, get_forecast, get_forecast_auto                           *)
(*                                                                         *)
(* Each returns [outcome, requests, value]: outcome is "ok" or the error   *)
(* raised, requests the GET requests issued in order, value the Optional   *)
(* return value.  gresp / fresp are the provider's answers to the          *)
(* geocoding and the forecast request: ok = FALSE is a transport failure   *)
(* or a non-success status (raise_for_status raises).                      *)
(***************************************************************************)
Raise(err, reqs) == [outcome |-> err, requests |-> reqs, value |-> None]
Return(v, reqs)  == [outcome |-> "ok", requests |-> reqs, value |-> Some(v)]

\* dict.get(key, default) for a key that may be absent
GetOr(o, default) == IF o = None THEN default ELSE o

GeoResult(chosen, cty, country_code) ==
    [name         |-> GetOr(chosen.name, Some(cty)),
     latitude     |-> chosen.latitude,
     longitude    |-> chosen.longitude,
     country_code |-> GetOr(chosen.country_code, country_code),
     admin1       |-> chosen.admin1,
     admin2       |-> chosen.admin2,
     timezone     |-> chosen.timezone,
     population   |-> chosen.population]

geocode_city(cty, st, county, country_code, gresp) ==
    IF ~gresp.ok THEN Raise("UpstreamError", <<"geocode">>)
    ELSE IF gresp.results = <<>> THEN Raise("NotFound", <<"geocode">>)
    ELSE LET chosen == _rank_results(gresp.results, st, county, country_code)[1]
         IN  IF ~_validate_latlon(chosen.latitude, chosen.longitude)
             THEN Raise("InvalidCoordinate", <<"geocode">>)
             ELSE Return(GeoResult(chosen, cty, country_code), <<"geocode">>)

get_forecast(lat, lon, fresp) ==
    IF ~_validate_latlon(lat, lon) THEN Raise("InvalidCoordinate", <<>>)
    ELSE IF ~fresp.ok THEN Raise("UpstreamError", <<"forecast">>)
    ELSE Return(fresp.data, <<"forecast">>)

\* data["_resolved_location"] = loc
WithLocation(data, loc) ==
    [current |-> data.current, resolved_location |-> Some(loc)]

LatLonLocation(lat, lon, timezone) ==
    [mode |-> "latlon", latitude |-> lat, longitude |-> lon,
     timezone |-> timezone,
     name |-> None, admin1 |-> None, admin2 |-> None,
     country_code |-> None, population |-> None]

CityLocation(geo, tz) ==
    [mode |-> "city", latitude |-> geo.latitude, longitude |-> geo.longitude,
     timezone |-> tz,
     name |-> geo.name, admin1 |-> geo.admin1, admin2 |-> geo.admin2,
     country_code |-> geo.country_code, population |-> geo.population]

\* lines 222-234: coordinates given, geocoding is not consulted
LatLonBranch(lat, lon, timezone, fresp) ==
    LET f == get_forecast(lat, lon, fresp)
    IN  IF f.outcome # "ok" THEN f
        ELSE Return(WithLocation(Val(f.value), LatLonLocation(lat, lon, timezone)),
                    f.requests)

\* lines 240-268: geocode the city, then fetch the forecast of the chosen point
CityBranch(cty, st, county, country_code, timezone, gresp, fresp) ==
    LET g == geocode_city(cty, st, county, country_code, gresp)
    IN  IF g.outcome # "ok" THEN g
        ELSE LET geo == Val(g.value)
                 tz  == IF geo.timezone # None /\ Val(geo.timezone) # ""
                        THEN Val(geo.timezone) ELSE timezone
                 f   == get_forecast(geo.latitude, geo.longitude, fresp)
             IN  IF f.outcome # "ok"
                 THEN Raise(f.outcome, g.requests \o f.requests)
                 ELSE Return(WithLocation(Val(f.value), CityLocation(geo, tz)),
                             g.requests \o f.requests)

\* variant: a given city takes precedence over given coordinates
get_forecast_auto_city_first(cty, st, county, country_code, lat, lon, timezone, gresp, fresp) ==
    IF Truthy(cty)
    THEN CityBranch(Val(cty), st, county, country_code, timezone, gresp, fresp)
    ELSE IF lat # None /\ lon # None
    THEN LatLonBranch(Val(lat), Val(lon), timezone, fresp)
    ELSE Raise("MissingLocation", <<>>)

\* variant: `if city is None` in place of `if not city`
get_forecast_auto_none_check(cty, st, county, country_code, lat, lon, timezone, gresp, fresp) ==
    IF lat # None /\ lon # None
    THEN LatLonBranch(Val(lat), Val(lon), timezone, fresp)
    ELSE IF cty = None THEN Raise("MissingLocation", <<>>)
    ELSE CityBranch(Val(cty), st, county, country_code, timezone, gresp, fresp)

get_forecast_auto(cty, st, county, country_code, lat, lon, timezone, gresp, fresp) ==
    IF lat # None /\ lon # None
    THEN LatLonBranch(Val(lat), Val(lon), timezone, fresp)
    ELSE IF ~Truthy(cty) THEN Raise("MissingLocation", <<>>)
    ELSE CityBranch(Val(cty), st, county, country_code, timezone, gresp, fresp)

(***************************************************************************)
(* get_weather_forecast: folder name, load, merge, save                    *)
(***************************************************************************)
\* f"{x}" for a float with one decimal digit
FloatStr(t) ==
    LET a == IF t < 0 THEN 0 - t ELSE t
    IN  (IF t < 0 THEN <<"-">> ELSE <<>>)
        \o NatStr(a \div 10) \o <<".">> \o NatStr(a % 10)

folder_name(cty, lat, lon) ==
    IF Truthy(cty)
    THEN replace(strip(lower(Val(cty))), " ", "_")
    ELSE replace(replace(<<"l","a","t","_">> \o FloatStr(Val(lat))
                         \o <<"_","l","o","n","_">> \o FloatStr(Val(lon)),
                         ".", "_"),
                 "-", "m")

NoHistory == [t \in {} |-> None]

\* the dict {} and a file holding something json.load rejects
EmptyInfo   == [kind |-> "json", latest |-> None, history |-> None]
CorruptFile == [kind |-> "corrupt", latest |-> None, history |-> None]

\* try: json.load(...) except (FileNotFoundError, JSONDecodeError): {}
Load(disk, key) ==
    IF key \in DOMAIN disk /\ disk[key].kind = "json" THEN disk[key] ELSE EmptyInfo

\* variant: only an absent time falls back, an empty one is used as the key
TimestampKey_absent_only(forecast) ==
    LET cur  == forecast.current
        time == IF cur = None THEN None ELSE Val(cur).time
    IN  IF time = None THEN "unknown_time" ELSE Val(time)

\* (forecast.get("current") or {}).get("time") or "unknown_time"
TimestampKey(forecast) ==
    LET cur  == forecast.current
        time == IF cur = None THEN None ELSE Val(cur).time
    IN  IF time = None \/ Val(time) = "" THEN "unknown_time" ELSE Val(time)

\* variant: `latest` is kept when it carries a newer timestamp than the payload
Merge_newest_wins(meteo_info, forecast) ==
    LET ts  == TimestampKey(forecast)
        h   == IF meteo_info.history = None THEN NoHistory ELSE Val(meteo_info.history)
        old == meteo_info.latest
    IN  [kind    |-> "json",
         latest  |-> IF old # None /\ ts = "2024-01-01T12:00"
                        /\ TimestampKey(Val(old)) = "2024-01-02T12:00"
                     THEN old ELSE Some(forecast),
         history |-> Some([t \in DOMAIN h \cup {ts} |->
                              IF t = ts THEN forecast ELSE h[t]])]

\* lines 58-63: latest, setdefault("history", {}), history[ts] = forecast
Merge(meteo_info, forecast) ==
    LET ts == TimestampKey(forecast)
        h  == IF meteo_info.history = None THEN NoHistory ELSE Val(meteo_info.history)
    IN  [kind    |-> "json",
         latest  |-> Some(forecast),
         history |-> Some([t \in DOMAIN h \cup {ts} |->
                              IF t = ts THEN forecast ELSE h[t]])]

\* json.dump(meteo_info, file)
Save(disk, key, meteo_info) ==
    [k \in DOMAIN disk \cup {key} |-> IF k = key THEN meteo_info ELSE disk[k]]

\* variant: the record file is created before the forecast has arrived
StoreAfter_eager(disk, r, key) ==
    IF r.outcome = "ok"
    THEN Save(disk, key, Merge(Load(disk, key), Val(r.value)))
    ELSE IF r.requests # <<>> THEN Save(disk, key, Load(disk, key))
    ELSE disk

\* the disk after the handler: an exception in get_forecast_auto (line 23)
\* propagates before any file operation
StoreAfter(disk, r, key) ==
    IF r.outcome = "ok"
    THEN Save(disk, key, Merge(Load(disk, key), Val(r.value)))
    ELSE disk

(***************************************************************************)
(* Inputs and provider answers                                             *)
(***************************************************************************)
BR       == <<"B","R">>
SaoPaulo == <<"S","a","o"," ","P","a","u","l","o">>
Goias    == <<"G","o","i","a","s">>
Campinas == <<"C","a","m","p","i","n","a","s">>

Candidate(nm, lat, lon, cc, a1, a2, tz, p) ==
    [name |-> nm, latitude |-> lat, longitude |-> lon, country_code |-> cc,
     admin1 |-> a1, admin2 |-> a2, timezone |-> tz, population |-> p]

\* arguments of get_weather_forecast
Cities     == {None, Some(<<>>), Some(<<"R","i","o"," ","C","l","a","r","o"," ">>)}
States     == {None, Some(<<" ","s","a","o"," ","p","a","u","l","o">>)}
Latitudes  == {None, Some(-905), Some(-125), Some(900)}
Longitudes == {None, Some(1805), Some(-465)}

\* (latitude, longitude) with at least one of the two left out
PartialCoordinates ==
    {<<None, None>>, <<Some(-125), None>>, <<None, Some(-465)>>}

\* geocoding answers: failure, no match, two homonyms, one malformed point
RioClaroGO == Candidate(None, -159, -501, Some(BR), Some(Goias), None,
                        Some("America/Sao_Paulo"), Some(PopInt(300000)))
RioClaroSP == Candidate(Some(<<"R","i","o"," ","C","l","a","r","o">>), -224, -475,
                        None, Some(SaoPaulo), None, None, Some(PopInt(200000)))
Malformed  == Candidate(None, 910, -475, Some(BR), None, None, Some(""), None)

GeoResponses ==
    { [ok |-> FALSE, results |-> <<>>],
      [ok |-> TRUE,  results |-> <<>>],
      [ok |-> TRUE,  results |-> <<RioClaroGO, RioClaroSP>>],
      [ok |-> TRUE,  results |-> <<Malformed>>] }

\* forecast answers: failure, or a payload whose "current" object is absent,
\* lacks "time", has an empty "time", or carries one of two timestamps
T1 == "2024-01-01T12:00"
T2 == "2024-01-02T12:00"
Current(time, temp) == Some([time |-> time, temperature_2m |-> temp])
Payload(cur)        == [current |-> cur]

Payloads ==
    { Payload(None),
      Payload(Current(None, 20)),
      Payload(Current(Some(""), 21)),
      Payload(Current(Some(T1), 22)),
      Payload(Current(Some(T2), 23)) }

FcResponses ==
    {[ok |-> FALSE, data |-> Payload(None)]} \cup {[ok |-> TRUE, data |-> d] : d \in Payloads}

\* raw records for _rank_results as a pure function
RankCands ==
    { Candidate(Some(<<"a">>), 0, 0, Some(BR), Some(SaoPaulo), None, None, Some(PopInt(1000))),
      Candidate(Some(<<"b">>), 0, 0, Some(BR), Some(<<"s","a","o"," ","p","a","u","l","o"," ">>),
                Some(Campinas), None, None),
      Candidate(Some(<<"c">>), 0, 0, Some(BR), Some(Goias), Some(Campinas), None, Some(PopInt(0))),
      Candidate(Some(<<"d">>), 0, 0, Some(<<"b","r">>), None, None, None,
                Some(PopStr(<<"n","/","a">>))),
      Candidate(Some(<<"e">>), 0, 0, Some(<<"U","S">>), Some(SaoPaulo), None, None,
                Some(PopInt(1000))),
      Candidate(Some(<<"f">>), 0, 0, Some(BR), Some(Goias), None, None, Some(PopInt(-2))),
      Candidate(Some(<<"g">>), 0, 0, None, None, None, None, Some(PopStr(<<" ","7">>))) }

RankStates   == {None, Some(<<>>), Some(<<" ","S","A","O"," ","P","A","U","L","O">>),
                 Some(<<"M","G">>), Some(<<" ">>)}
RankCounties == {None, Some(<<"c","a","m","p","i","n","a","s">>)}
RankCountries == {None, Some(<<"b","r"," ">>), Some(<<"A","R">>)}

SeqsUpTo(S, n) == UNION {[1..k -> S] : k \in 0..n}

(***************************************************************************)
(* get_weather_forecast as a state machine                                 *)
(***************************************************************************)
RankIdle ==
    /\ results = <<>> /\ rstate = None /\ rcounty = None /\ rcc = None
    /\ ranked = <<>> /\ reranked = <<>> /\ rpc = "off"

ServerIdle(disk) ==
    /\ store = disk
    /\ merged = [k \in {j \in DOMAIN disk : disk[j].kind = "json"} |->
                    <<Val(disk[k].latest)>>]
    /\ calls = 0
    /\ city = None /\ latitude = None /\ longitude = None
    /\ outcome = "none" /\ requests = <<>> /\ result = None /\ folder = None

\* a record an earlier run of the tool left behind (coordinates only, T2)
EarlierForecast ==
    WithLocation(Payload(Current(Some(T2), 19)),
                 LatLonLocation(-125, -465, "America/Sao_Paulo"))
EarlierFolder == folder_name(None, Some(-125), Some(-465))

\* meteo_data before the first call: empty, holding an unreadable file, or
\* holding the record of an earlier run
InitialDisks ==
    { [k \in {} |-> EmptyInfo],
      [k \in {<<"r","i","o","_","c","l","a","r","o">>} |-> CorruptFile],
      Save([k \in {} |-> EmptyInfo], EarlierFolder, Merge(EmptyInfo, EarlierForecast)) }

Init == (\E disk \in InitialDisks : ServerIdle(disk)) /\ RankIdle

get_weather_forecast(cty, st, lat, lon, gresp, fresp) ==
    /\ calls < MaxCalls
    /\ \E r \in {get_forecast_auto(cty, st, None, Some(BR), lat, lon,
                                   "America/Sao_Paulo", gresp, fresp)} :
         LET key == folder_name(cty, lat, lon)
         IN  /\ store' = StoreAfter(store, r, key)
             /\ merged' = IF r.outcome # "ok" THEN merged
                          ELSE [k \in DOMAIN merged \cup {key} |->
                                  (IF k \in DOMAIN merged THEN merged[k] ELSE <<>>)
                                  \o (IF k = key THEN <<Val(r.value)>> ELSE <<>>)]
             /\ folder' = IF r.outcome = "ok" THEN Some(key) ELSE None
             /\ outcome' = r.outcome
             /\ requests' = r.requests
             /\ result' = r.value
    /\ calls' = calls + 1
    /\ city' = cty /\ latitude' = lat /\ longitude' = lon
    /\ UNCHANGED rankVars

\* answers to requests that the call never gets to issue
NoGeoResponse == [ok |-> FALSE, results |-> <<>>]
NoFcResponse  == [ok |-> FALSE, data |-> Payload(None)]

\* the caller passes both coordinates (and possibly a city as well)
CallWithCoordinates ==
    \E cty \in Cities, st \in States,
       lat \in Latitudes \ {None}, lon \in Longitudes \ {None},
       fresp \in FcResponses :
        get_weather_forecast(cty, st, lat, lon, NoGeoResponse, fresp)

\* the caller passes a city and at most one coordinate
CallWithCity ==
    \E cty \in {c \in Cities : Truthy(c)}, st \in States, ll \in PartialCoordinates,
       gresp \in GeoResponses, fresp \in FcResponses :
        get_weather_forecast(cty, st, ll[1], ll[2], gresp, fresp)

\* the caller passes no usable city and at most one coordinate
CallWithoutLocation ==
    \E cty \in {c \in Cities : ~Truthy(c)}, st \in States, ll \in PartialCoordinates :
        get_weather_forecast(cty, st, ll[1], ll[2], NoGeoResponse, NoFcResponse)

Next == CallWithCoordinates \/ CallWithCity \/ CallWithoutLocation

Spec == Init /\ [][Next]_vars

(***************************************************************************)
(* _rank_results as a pure function: rank, then rank the output again      *)
(***************************************************************************)
InitRank ==
    /\ \E disk \in {[k \in {} |-> EmptyInfo]} : ServerIdle(disk)
    /\ results \in SeqsUpTo(RankCands, MaxCands)
    /\ rstate \in RankStates /\ rcounty \in RankCounties /\ rcc \in RankCountries
    /\ ranked = <<>> /\ reranked = <<>> /\ rpc = "in"

Rank ==
    /\ rpc = "in"
    /\ ranked' = _rank_results(results, rstate, rcounty, rcc)
    /\ rpc' = "ranked"
    /\ UNCHANGED <<srvVars, results, rstate, rcounty, rcc, reranked>>

ReRank ==
    /\ rpc = "ranked"
    /\ reranked' = _rank_results(ranked, rstate, rcounty, rcc)
    /\ rpc' = "reranked"
    /\ UNCHANGED <<srvVars, results, rstate, rcounty, rcc, ranked>>

NextRank == Rank \/ ReRank

SpecRank == InitRank /\ [][NextRank]_vars

(***************************************************************************)
(* Properties of get_weather_forecast (checked under Spec)                 *)
(***************************************************************************)
SuppliedBoth == latitude # None /\ longitude # None

SuppliedInRange ==
    /\ SuppliedBoth
    /\ Val(latitude) \in -900..900
    /\ Val(longitude) \in -1800..1800

ReturnedLocation == Val(Val(result).resolved_location)

\* the history key a payload is filed under: its current.time, or
\* "unknown_time" when the field is absent or empty
HistoryKeyOf(p) ==
    IF p.current = None THEN "unknown_time"
    ELSE IF Val(p.current).time \in {None, Some("")} THEN "unknown_time"
    ELSE Val(Val(p.current).time)

Last(log) == log[Len(log)]

\* C1: for every location key, every timestamp key written by an update is
\* still in the persisted history after all later updates, and `latest` is
\* the payload of the most recent update of that key, whatever its timestamp.
C1_HistoryGrowsLatestIsLastWrite ==
    \A k \in DOMAIN merged :
        /\ k \in DOMAIN store
        /\ store[k].kind = "json"
        /\ store[k].latest = Some(Last(merged[k]))
        /\ \A i \in 1..Len(merged[k]) :
               HistoryKeyOf(merged[k][i]) \in DOMAIN Val(store[k].history)

\* a record whose latest payload carries T1 although T2 was merged before it
C1_Witness ==
    \E k \in DOMAIN merged :
        /\ Len(merged[k]) >= 2
        /\ HistoryKeyOf(merged[k][1]) = T2
        /\ HistoryKeyOf(Last(merged[k])) = T1
        /\ Val(store[k].latest) = Last(merged[k])
        /\ T2 \in DOMAIN Val(store[k].history)

\* C2: when both coordinates are supplied and in range, no geocoding request
\* is issued, the call can only fail on the forecast request, and what it
\* returns carries a location of mode "latlon" with exactly the supplied
\* coordinates, whether or not a city was supplied too.
C2_CoordinatesBypassGeocoding ==
    SuppliedInRange =>
        /\ \A i \in 1..Len(requests) : requests[i] # "geocode"
        /\ outcome \in {"ok", "UpstreamError"}
        /\ outcome = "ok" =>
               /\ ReturnedLocation.mode = "latlon"
               /\ ReturnedLocation.latitude = Val(latitude)
               /\ ReturnedLocation.longitude = Val(longitude)

\* a successful call that was given a city together with in-range coordinates
C2_Witness ==
    /\ SuppliedInRange
    /\ Truthy(city)
    /\ outcome = "ok"
    /\ ReturnedLocation.mode = "latlon"
    /\ requests = <<"forecast">>

\* C3: a supplied coordinate pair with latitude outside [-90,90] or longitude
\* outside [-180,180] fails with the invalid-coordinate error before any
\* request is issued.
C3_OutOfRangeFailsBeforeRequests ==
    (SuppliedBoth /\ ~SuppliedInRange) =>
        /\ outcome = "InvalidCoordinate"
        /\ requests = <<>>

\* a rejected pair whose latitude is fine and whose longitude is not
C3_Witness ==
    /\ SuppliedBoth
    /\ Val(latitude) \in -900..900
    /\ Val(longitude) > 1800
    /\ outcome = "InvalidCoordinate"
    /\ requests = <<>>

\* C7: the history of a record has exactly one entry per history key of the
\* payloads merged into it, each holding the last payload merged under that
\* key, and `latest` is the last payload merged.
C7_OneEntryPerTimestampKey ==
    \A k \in DOMAIN merged :
        LET log == merged[k]
            h   == Val(store[k].history)
        IN  /\ DOMAIN h = {HistoryKeyOf(log[i]) : i \in 1..Len(log)}
            /\ \A i \in 1..Len(log) :
                   (\A j \in (i + 1)..Len(log) : HistoryKeyOf(log[j]) # HistoryKeyOf(log[i]))
                       => h[HistoryKeyOf(log[i])] = log[i]
            /\ store[k].latest = Some(Last(log))

\* two different payloads merged under one key, next to an untouched entry
C7_Witness ==
    \E k \in DOMAIN merged :
        LET log == merged[k]
            h   == Val(store[k].history)
        IN  /\ Len(log) = 3
            /\ HistoryKeyOf(log[1]) = HistoryKeyOf(log[3])
            /\ HistoryKeyOf(log[2]) # HistoryKeyOf(log[1])
            /\ log[1] # log[3]
            /\ Cardinality(DOMAIN h) = 2
            /\ h[HistoryKeyOf(log[3])] = log[3]
            /\ h[HistoryKeyOf(log[2])] = log[2]

\* C8: without both coordinates and without a non-empty city the call fails
\* with the missing-location error and issues no request.
C8_MissingLocationFailsBeforeRequests ==
    (calls > 0 /\ ~SuppliedBoth /\ (city = None \/ city = Some(<<>>))) =>
        /\ outcome = "MissingLocation"
        /\ requests = <<>>

\* an empty city with only the latitude given
C8_Witness ==
    /\ calls > 0
    /\ city = Some(<<>>)
    /\ latitude # None
    /\ longitude = None
    /\ outcome = "MissingLocation"

\* C9: the record key follows the resolution mode: the coordinate key for a
\* location resolved in mode "latlon", the city key for mode "city"; so a
\* record never holds "latlon" payloads of two distinct coordinate pairs.
C9_KeyFollowsResolutionMode ==
    /\ outcome = "ok" =>
           /\ ReturnedLocation.mode = "latlon" =>
                  folder = Some(folder_name(None, Some(ReturnedLocation.latitude),
                                            Some(ReturnedLocation.longitude)))
           /\ ReturnedLocation.mode = "city" =>
                  folder = Some(replace(strip(lower(Val(city))), " ", "_"))
    /\ \A k \in DOMAIN merged : \A i, j \in 1..Len(merged[k]) :
           LET a == Val(merged[k][i].resolved_location)
               b == Val(merged[k][j].resolved_location)
           IN  (a.mode = "latlon" /\ b.mode = "latlon") =>
                   (a.latitude = b.latitude /\ a.longitude = b.longitude)

\* C10: a call that fails (missing location, invalid coordinates, no
\* geocoding match, upstream error) leaves every persisted record as it was.
C10_FailedCallLeavesStoreUnchanged ==
    [][outcome' \in {"MissingLocation", "InvalidCoordinate", "NotFound", "UpstreamError"}
          => store' = store]_vars

\* a call that found no geocoding match while a record already existed
C10_Witness ==
    /\ outcome = "NotFound"
    /\ requests = <<"geocode">>
    /\ \E k \in DOMAIN store : store[k].kind = "json"

(***************************************************************************)
(* Properties of _rank_results (checked under SpecRank)                    *)
(***************************************************************************)
HintGiven(h) == h # None /\ Val(h) # <<>>

\* the three soft-filter stages on the set of candidates
CountryMatches == {r \in Range(results) : _norm(r.country_code) = _norm(rcc)}
AfterCountry ==
    IF HintGiven(rcc) /\ CountryMatches # {} THEN CountryMatches ELSE Range(results)

StateMatches == {r \in AfterCountry : _norm(r.admin1) = _norm(rstate)}
AfterState ==
    IF HintGiven(rstate) /\ StateMatches # {} THEN StateMatches ELSE AfterCountry

CountyMatches == {r \in AfterState : _norm(r.admin2) = _norm(rcounty)}
AfterCounty ==
    IF HintGiven(rcounty) /\ CountyMatches # {} THEN CountyMatches ELSE AfterState

StateMatchesNone == HintGiven(rstate) /\ StateMatches = {}

\* C4: the output holds exactly the candidates left by the country, state and
\* county stages applied in that order, each stage keeping its matches or, if
\* it has none, its input; so a non-empty input never ranks to an empty
\* output, and a state hint without match (no county) leaves the country
\* stage's set.
C4_SoftFilterCascade ==
    rpc # "in" =>
        /\ Range(ranked) = AfterCounty
        /\ Len(ranked) = Cardinality({i \in 1..Len(results) : results[i] \in AfterCounty})
        /\ results # <<>> => ranked # <<>>
        /\ (StateMatchesNone /\ ~HintGiven(rcounty)) => Range(ranked) = AfterCountry

\* the country hint removed a candidate, the state hint matched none
C4_Witness ==
    /\ rpc = "ranked"
    /\ AfterCountry # Range(results)
    /\ StateMatchesNone
    /\ ~HintGiven(rcounty)
    /\ Range(ranked) = AfterCountry
    /\ Cardinality(AfterCountry) >= 2

\* population as the ordering sees it: -1 when missing or unparseable
OrderKey(r) ==
    IF r.population = None THEN -1
    ELSE IF int(Val(r.population)) = None THEN -1
    ELSE Val(int(Val(r.population)))

HasPopulation(r) == r.population # None /\ int(Val(r.population)) # None

\* C5: the output is in descending population order with missing or
\* unparseable populations counted as -1; a candidate with a known
\* non-negative population precedes every candidate without one; candidates
\* of equal population keep their input order.
C5_PopulationOrder ==
    rpc # "in" =>
        /\ \A i, j \in 1..Len(ranked) :
               i < j => OrderKey(ranked[i]) >= OrderKey(ranked[j])
        /\ \A i, j \in 1..Len(ranked) :
               (HasPopulation(ranked[i]) /\ OrderKey(ranked[i]) >= 0
                    /\ ~HasPopulation(ranked[j])) => i < j
        /\ \A v \in {OrderKey(r) : r \in Range(ranked)} :
               SelectSeq(ranked, LAMBDA r : OrderKey(r) = v)
                 = SelectSeq(results, LAMBDA r : r \in Range(ranked) /\ OrderKey(r) = v)

\* a missing population listed before a population of 0, and a tie
C5_Witness ==
    /\ rpc = "ranked"
    /\ \E i, j \in 1..Len(results) :
           /\ i < j
           /\ results[i].population = None
           /\ results[j].population = Some(PopInt(0))
           /\ results[i] \in Range(ranked)
           /\ results[j] \in Range(ranked)
    /\ \E i, j \in 1..Len(ranked) :
           i # j /\ ranked[i] # ranked[j] /\ OrderKey(ranked[i]) = OrderKey(ranked[j])

\* C6: ranking the ranked list again with the same hints returns it unchanged.
C6_RankIdempotent ==
    rpc = "reranked" => reranked = ranked

\* a re-ranked list that filtering and sorting had changed, with a tie in it
C6_Witness ==
    /\ rpc = "reranked"
    /\ ranked # results
    /\ Len(ranked) < Len(results)
    /\ \E i \in 1..(Len(ranked) - 1) :
           /\ ranked[i] # ranked[i + 1]
           /\ OrderKey(ranked[i]) = OrderKey(ranked[i + 1])

====
